---- MODULE Spec2Model ----
(***************************************************************************)
(* A model of flask_github.py: the GitHub OAuth helper for Flask.          *)
(*                                                                         *)
(* One GitHub instance is shared by the request threads of the embedding   *)
(* application.  Every public operation of the instance is an action; an   *)
(* operation that calls the HTTP transport (httplib2's Http.request) is    *)
(* split at that blocking call: the first action runs the code up to the   *)
(* call, the second receives what the transport answered (or raised) and   *)
(* runs the rest of the operation.                                         *)
(***************************************************************************)
EXTENDS Integers, Sequences, FiniteSets, TLC

(***************************************************************************)
(* Python values.                                                          *)
(***************************************************************************)
\* Python's None where the other values are strings (tokens, JSON values).
None == "<None>"

\* '%s' % v  for a string or None.
Str(v) == IF v = None THEN "None" ELSE v

\* An optional argument (headers=None, body=None): absent, or a value.
Absent == [some |-> FALSE, v |-> <<>>]

Some(x) == [some |-> TRUE, v |-> x]

\* Python truthiness of an optional dict or string: None, {} and "" are falsy.
Truthy(o) == o.some /\ o.v # <<>>

\* The decimal digits of str(n).
Digit == <<"0", "1", "2", "3", "4", "5", "6", "7", "8", "9">>

RECURSIVE IntStr(_)
\* str(n) for a non-negative integer.
IntStr(n) == IF n < 10 THEN Digit[n + 1]
             ELSE IntStr(n \div 10) \o Digit[(n % 10) + 1]

RECURSIVE FirstChar(_)
\* The first character of str(n): what str(n).startswith(c) compares with.
FirstChar(n) == IF n < 10 THEN Digit[n + 1] ELSE FirstChar(n \div 10)

(***************************************************************************)
(* JSON text is a sequence of lexical tokens; flask.json's dumps and loads *)
(* are the encoder and the parser on such sequences.  The texts that occur *)
(* are flat objects of string and null members, the empty array, and text  *)
(* that is not JSON at all.                                                *)
(***************************************************************************)
Tok(t, v) == [t |-> t, v |-> v]

LBrace == Tok("punct", "{")

RBrace == Tok("punct", "}")

LBracket == Tok("punct", "[")

RBracket == Tok("punct", "]")

Colon == Tok("punct", ":")

Comma == Tok("punct", ",")

Null == Tok("null", "null")

Lit(s) == Tok("str", s)

\* Text that is not JSON (a form-encoded body, plain text).
Raw(s) == Tok("raw", s)

\* The JSON token of a Python string or None.
ValueTok(v) == IF v = None THEN Null ELSE Lit(v)

\* The Python value of a JSON value token.
TokValue(x) == IF x.t = "null" THEN None ELSE x.v

RECURSIVE DumpMembers(_, _)
\* The members of an object, from the i-th pair on.
DumpMembers(pairs, i) ==
    IF i > Len(pairs) THEN <<>>
    ELSE <<Lit(pairs[i][1]), Colon, ValueTok(pairs[i][2])>>
         \o (IF i < Len(pairs) THEN <<Comma>> ELSE <<>>)
         \o DumpMembers(pairs, i + 1)

\* json.dumps of a dict given as its sequence of (key, value) items.
json_dumps(pairs) == <<LBrace>> \o DumpMembers(pairs, 1) \o <<RBrace>>

\* What json.loads gives: a dict, a list, or a ValueError.
Decoded(kind, d) == [kind |-> kind, d |-> d]

ValueError == Decoded("ValueError", <<>>)

RECURSIVE ParseMembers(_, _, _)
\* Parses  key : value [, ...] }  from toks[i] on; acc holds the members read.
ParseMembers(toks, i, acc) ==
    IF i + 3 > Len(toks) THEN ValueError
    ELSE IF ~(toks[i].t = "str" /\ toks[i + 1] = Colon
              /\ toks[i + 2].t \in {"str", "null"}) THEN ValueError
    ELSE LET acc2 == (toks[i].v :> TokValue(toks[i + 2])) @@ acc
         IN  IF toks[i + 3] = RBrace
             THEN (IF i + 3 = Len(toks) THEN Decoded("dict", acc2) ELSE ValueError)
             ELSE IF toks[i + 3] = Comma THEN ParseMembers(toks, i + 4, acc2)
             ELSE ValueError

\* json.loads of a text.
json_loads(toks) ==
    IF toks = <<LBrace, RBrace>> THEN Decoded("dict", <<>>)
    ELSE IF toks = <<LBracket, RBracket>> THEN Decoded("list", <<>>)
    ELSE IF Len(toks) >= 1 /\ toks[1] = LBrace THEN ParseMembers(toks, 2, <<>>)
    ELSE ValueError

\* d.get(key): the value, or None when the key is missing.
DictGet(d, key) == IF key \in DOMAIN d THEN d[key] ELSE None

(***************************************************************************)
(* Outcomes of a call, and the values a call can return.                   *)
(***************************************************************************)
NoVal == [none |-> TRUE]

StrVal(s) == [str |-> s]

\* The (resp, content) tuple of the transport.
PairVal(resp, content) == [resp |-> resp, content |-> content]

\* A decoded JSON document.
DecodedVal(d) == [decoded |-> d]

\* Raw content handed back as it came.
ContentVal(c) == [content |-> c]

\* flask.redirect(url).
RedirectVal(url) == [redirect |-> url]

HookVal(f) == [hook |-> f]

NoOutcome == [kind |-> "none", exc |-> "", val |-> NoVal]

Returned(v) == [kind |-> "return", exc |-> "", val |-> v]

Raised(exc, args) == [kind |-> "raise", exc |-> exc, val |-> args]

\* What a piece of code did: its outcome (NoOutcome while it is blocked in the
\* transport), the events it went through in order, and the requests it handed
\* to the transport.
Step(out, events, send) == [out |-> out, log |-> events, send |-> send]

(***************************************************************************)
(* The HTTP transport: requests handed to Http.request, and its answers.   *)
(* An httplib2 Response is the dict of the response headers with a status  *)
(* attribute; the body comes beside it as content.                         *)
(***************************************************************************)
Request(url, method, headers, body) ==
    [url |-> url, method |-> method, headers |-> headers, body |-> body]

Response(status, headers) == [status |-> status, headers |-> headers]

\* resp.get(key, default)
RespGet(resp, key, default) ==
    IF key \in DOMAIN resp.headers THEN resp.headers[key] ELSE default

NoReply == [kind |-> "none", exc |-> "", resp |-> Response(0, <<>>), content |-> <<>>]

\* Http.request returned (resp, content).
Answer(resp, content) ==
    [kind |-> "response", exc |-> "", resp |-> resp, content |-> content]

\* Http.request raised (no route to the server, a socket error).
Failure(exc) ==
    [kind |-> "error", exc |-> exc, resp |-> Response(0, <<>>), content |-> <<>>]

JSON_HEADERS == ("Content-Type" :> "application/json")

(***************************************************************************)
(* GitHubError                                                             *)
(***************************************************************************)
\* GitHubError(resp): args[0], the response property, is the Response.
GitHubError(resp) == Raised("GitHubError", [response |-> resp])

\* response['message']: the Response is the dict of the response headers, and
\* a key it does not hold raises KeyError.
Response_getitem(resp, key) ==
    IF key \in DOMAIN resp.headers
    THEN Returned(StrVal(resp.headers[key]))
    ELSE Raised("KeyError", NoVal)

\* __str__ without its try: the failure of the lookup leaves __str__.
str_GitHubError_unguarded(e) ==
    LET got == Response_getitem(e.val.response, "message")
    IN  IF got.kind = "raise" THEN got
        ELSE Returned(StrVal(IntStr(e.val.response.status) \o ": "
                             \o Str(got.val.str)))

\* str(e), as an outcome: __str__ looks message up in the response, takes
\* None when the lookup raises, and formats status and message.
str_GitHubError(e) ==
    LET got == Response_getitem(e.val.response, "message")
        message == IF got.kind = "raise" THEN None ELSE got.val.str
    IN  Returned(StrVal(IntStr(e.val.response.status) \o ": " \o Str(message)))

\* GitHubError.__str__: the string str(e) returns.
GitHubError_str(e) == str_GitHubError(e).val.str

(***************************************************************************)
(* GitHub: configuration and the access token getter.                      *)
(***************************************************************************)
BASE_URL == "https://api.github.com/"

BASE_AUTH_URL == "https://github.com/login/oauth/"

\* The class's get_access_token, in place until a getter is registered.
DefaultGetter == [kind |-> "default", v |-> "NotImplementedError"]

\* A registered getter that returns v (a token, or None).
Getter(v) == [kind |-> "returns", v |-> v]

\* A registered getter that raises exc (no token stored for the user).
FailingGetter(exc) == [kind |-> "raises", v |-> exc]

\* self.get_access_token()
get_access_token(self) ==
    IF self.get_access_token.kind = "returns"
    THEN Returned(StrVal(self.get_access_token.v))
    ELSE Raised(self.get_access_token.v, NoVal)

\* init_app: the instance built from app.config.
init_app(config) ==
    [client_id |-> config["GITHUB_CLIENT_ID"],
     client_secret |-> config["GITHUB_CLIENT_SECRET"],
     callback_url |-> config["GITHUB_CALLBACK_URL"],
     base_url |-> IF "GITHUB_BASE_URL" \in DOMAIN config
                  THEN config["GITHUB_BASE_URL"] ELSE BASE_URL,
     get_access_token |-> DefaultGetter]

(***************************************************************************)
(* urlencode: quote_plus of every value, joined as k=v&k=v.                *)
(***************************************************************************)
\* The characters of the strings that pass through urlencode.
Chars ==
    ("id1" :> <<"i", "d", "1">>)
    @@ ("http://app/cb" :> <<"h", "t", "t", "p", ":", "/", "/", "a", "p", "p", "/", "c", "b">>)
    @@ ("user" :> <<"u", "s", "e", "r">>)
    @@ ("user:email" :> <<"u", "s", "e", "r", ":", "e", "m", "a", "i", "l">>)
    @@ ("repo user" :> <<"r", "e", "p", "o", " ", "u", "s", "e", "r">>)
    @@ ("" :> <<>>)

\* quote_plus of one character.
QuoteChar(c) ==
    CASE c = " " -> "+"
      [] c = ":" -> "%3A"
      [] c = "/" -> "%2F"
      [] c = "," -> "%2C"
      [] OTHER -> c

RECURSIVE QuoteFrom(_, _)
QuoteFrom(cs, i) ==
    IF i > Len(cs) THEN "" ELSE QuoteChar(cs[i]) \o QuoteFrom(cs, i + 1)

quote_plus(s) == QuoteFrom(Chars[s], 1)

RECURSIVE UrlencodeFrom(_, _)
UrlencodeFrom(pairs, i) ==
    IF i > Len(pairs) THEN ""
    ELSE pairs[i][1] \o "=" \o quote_plus(pairs[i][2])
         \o (IF i < Len(pairs) THEN "&" ELSE "")
         \o UrlencodeFrom(pairs, i + 1)

urlencode(pairs) == UrlencodeFrom(pairs, 1)

(***************************************************************************)
(* The operations of GitHub, as functions of the instance and the inputs.  *)
(***************************************************************************)
\* authorize adding the scope on `if scope:`, which drops an empty scope.
authorize_result_truthy_scope(self, scope) ==
    LET params == <<<<"client_id", self.client_id>>,
                    <<"redirect_uri", self.callback_url>>>>
                  \o (IF scope # None /\ scope # "" THEN <<<<"scope", scope>>>> ELSE <<>>)
    IN  Step(Returned(RedirectVal(BASE_AUTH_URL \o "authorize?" \o urlencode(params))),
             <<>>, <<>>)

\* authorize(scope): the redirect to GitHub's authorize page.
authorize_result(self, scope) ==
    LET params == <<<<"client_id", self.client_id>>,
                    <<"redirect_uri", self.callback_url>>>>
                  \o (IF scope # None THEN <<<<"scope", scope>>>> ELSE <<>>)
    IN  Step(Returned(RedirectVal(BASE_AUTH_URL \o "authorize?" \o urlencode(params))),
             <<>>, <<>>)

\* _handle_response up to its call of Http.request: the POST for the token.
handle_response_send(self, args) ==
    LET params == json_dumps(<<<<"code", args["code"]>>,
                               <<"client_id", self.client_id>>,
                               <<"client_secret", self.client_secret>>>>)
    IN  Step(NoOutcome, <<"http.request">>,
             <<Request(BASE_AUTH_URL \o "access_token", "POST", JSON_HEADERS,
                       Some(params))>>)

\* _handle_response reading the field `token` of the body.
handle_response_wrong_field(rep) ==
    IF rep.kind = "error" THEN Step(Raised(rep.exc, NoVal), <<>>, <<>>)
    ELSE IF rep.resp.status # 200 THEN Step(Returned(StrVal(None)), <<>>, <<>>)
    ELSE LET data == json_loads(rep.content)
         IN  IF data.kind = "ValueError"
             THEN Step(Raised("ValueError", NoVal), <<"json.loads">>, <<>>)
             ELSE IF data.kind # "dict"
             THEN Step(Raised("AttributeError", NoVal), <<"json.loads">>, <<>>)
             ELSE Step(Returned(StrVal(DictGet(data.d, "token"))),
                       <<"json.loads">>, <<>>)

\* _handle_response giving up on the error statuses only (status >= 400), and
\* reading the body of every other answer.
handle_response_error_statuses_only(rep) ==
    IF rep.kind = "error" THEN Step(Raised(rep.exc, NoVal), <<>>, <<>>)
    ELSE IF rep.resp.status >= 400 THEN Step(Returned(StrVal(None)), <<>>, <<>>)
    ELSE LET data == json_loads(rep.content)
         IN  IF data.kind = "ValueError"
             THEN Step(Raised("ValueError", NoVal), <<"json.loads">>, <<>>)
             ELSE IF data.kind # "dict"
             THEN Step(Raised("AttributeError", NoVal), <<"json.loads">>, <<>>)
             ELSE Step(Returned(StrVal(DictGet(data.d, "access_token"))),
                       <<"json.loads">>, <<>>)

\* _handle_response raising on a status other than 200.
handle_response_raises_on_failure(rep) ==
    IF rep.kind = "error" THEN Step(Raised(rep.exc, NoVal), <<>>, <<>>)
    ELSE IF rep.resp.status # 200 THEN Step(Raised("ValueError", NoVal), <<>>, <<>>)
    ELSE LET data == json_loads(rep.content)
         IN  IF data.kind = "ValueError"
             THEN Step(Raised("ValueError", NoVal), <<"json.loads">>, <<>>)
             ELSE IF data.kind # "dict"
             THEN Step(Raised("AttributeError", NoVal), <<"json.loads">>, <<>>)
             ELSE Step(Returned(StrVal(DictGet(data.d, "access_token"))),
                       <<"json.loads">>, <<>>)

\* _handle_response with data.get('access_token', ''): an empty token, not
\* None, when the body holds none.
handle_response_default_token(rep) ==
    IF rep.kind = "error" THEN Step(Raised(rep.exc, NoVal), <<>>, <<>>)
    ELSE IF rep.resp.status # 200 THEN Step(Returned(StrVal(None)), <<>>, <<>>)
    ELSE LET data == json_loads(rep.content)
         IN  IF data.kind = "ValueError"
             THEN Step(Raised("ValueError", NoVal), <<"json.loads">>, <<>>)
             ELSE IF data.kind # "dict"
             THEN Step(Raised("AttributeError", NoVal), <<"json.loads">>, <<>>)
             ELSE Step(Returned(StrVal(IF "access_token" \in DOMAIN data.d
                                       THEN data.d["access_token"] ELSE "")),
                       <<"json.loads">>, <<>>)

\* _handle_response from the return of Http.request on: rep is what the
\* transport answered.  A list has no get: AttributeError.
handle_response(rep) ==
    IF rep.kind = "error" THEN Step(Raised(rep.exc, NoVal), <<>>, <<>>)
    ELSE IF rep.resp.status # 200 THEN Step(Returned(StrVal(None)), <<>>, <<>>)
    ELSE LET data == json_loads(rep.content)
         IN  IF data.kind = "ValueError"
             THEN Step(Raised("ValueError", NoVal), <<"json.loads">>, <<>>)
             ELSE IF data.kind # "dict"
             THEN Step(Raised("AttributeError", NoVal), <<"json.loads">>, <<>>)
             ELSE Step(Returned(StrVal(DictGet(data.d, "access_token"))),
                       <<"json.loads">>, <<>>)

\* _handle_invalid_response reading request.args['code'], which is missing.
handle_invalid_response_raises == Step(Raised("BadRequestKeyError", NoVal), <<>>, <<>>)

\* _handle_invalid_response: pass.
handle_invalid_response == Step(Returned(StrVal(None)), <<>>, <<>>)

\* f(*(args + (data,)), **kwargs): the token after the arguments of the route.
Invocation_appended(data, args, kwargs, did) ==
    [args |-> args \o <<data>>, kwargs |-> kwargs, out |-> did]

\* f(*((data,) + args), **kwargs): the arguments the wrapped route gets, and
\* what the route did with them.
Invocation(data, args, kwargs, did) ==
    [args |-> <<data>> \o args, kwargs |-> kwargs, out |-> did]

\* decorated from the token on, st being how the token was obtained: the
\* calls of the wrapped route.  When obtaining the token raised there is none.
decorated_calls(st, args, kwargs, did) ==
    IF st.out.kind = "raise" THEN <<>>
    ELSE <<Invocation(st.out.val.str, args, kwargs, did)>>

\* decorated from the token on: what the wrapped route does is what
\* decorated does.
decorated_result(st, did) ==
    IF st.out.kind = "raise" THEN st
    ELSE Step(did, st.log \o <<"f">>, st.send)

\* raw_request catching the failure of the getter and going on without a token.
raw_request_send_swallow(self, method, resource, headers, body) ==
    LET hdrs == IF ~Truthy(headers) THEN <<>> ELSE headers.v
        token == get_access_token(self)
        got == IF token.kind = "raise" THEN None ELSE token.val.str
        url == BASE_URL \o resource \o "?access_token=" \o Str(got)
    IN  Step(NoOutcome, <<"get_access_token", "http.request">>,
             <<Request(url, method, hdrs, IF ~Truthy(body) THEN Absent ELSE body)>>)

\* raw_request calling the getter twice: to see that there is a token, and
\* again to build the URL.
raw_request_send_getter_twice(self, method, resource, headers, body) ==
    LET hdrs == IF ~Truthy(headers) THEN <<>> ELSE headers.v
        token == get_access_token(self)
        url == BASE_URL \o resource \o "?access_token=" \o Str(token.val.str)
    IN  IF token.kind = "raise" THEN Step(token, <<"get_access_token">>, <<>>)
        ELSE Step(NoOutcome, <<"get_access_token", "get_access_token", "http.request">>,
                  <<Request(url, method, hdrs,
                            IF ~Truthy(body) THEN Absent ELSE body)>>)

\* raw_request up to its call of Http.request.
raw_request_send(self, method, resource, headers, body) ==
    LET hdrs == IF ~Truthy(headers) THEN <<>> ELSE headers.v
        token == get_access_token(self)
        url == BASE_URL \o resource \o "?access_token=" \o Str(token.val.str)
    IN  IF token.kind = "raise" THEN Step(token, <<"get_access_token">>, <<>>)
        ELSE Step(NoOutcome, <<"get_access_token", "http.request">>,
                  <<Request(url, method, hdrs,
                            IF ~Truthy(body) THEN Absent ELSE body)>>)

\* raw_request looking at the status as request does.
raw_request_result_checks_status(rep) ==
    IF rep.kind = "error" THEN Step(Raised(rep.exc, NoVal), <<>>, <<>>)
    ELSE IF FirstChar(rep.resp.status) = "4"
    THEN Step(GitHubError(rep.resp), <<>>, <<>>)
    ELSE Step(Returned(PairVal(rep.resp, rep.content)), <<>>, <<>>)

\* raw_request from the return of Http.request on: the tuple as it came.
raw_request_result(rep) ==
    IF rep.kind = "error" THEN Step(Raised(rep.exc, NoVal), <<>>, <<>>)
    ELSE Step(Returned(PairVal(rep.resp, rep.content)), <<>>, <<>>)

\* s.startswith(prefix) for a header value kept as its segments, the prefix
\* tested being a segment of its own where the value starts with it.
StartsWith(s, prefix) == Len(s) >= 1 /\ s[1] = prefix

\* request decoding on a content type equal to application/json only.
request_result_exact_content_type(rep) ==
    LET raw == raw_request_result(rep)
        resp == raw.out.val.resp
        content == raw.out.val.content
    IN  IF raw.out.kind = "raise" THEN raw
        ELSE IF FirstChar(resp.status) = "4" THEN Step(GitHubError(resp), <<>>, <<>>)
        ELSE IF FirstChar(resp.status) # "2"
        THEN Step(Raised("AssertionError", NoVal), <<>>, <<>>)
        ELSE IF RespGet(resp, "content-type", <<>>) = <<"application/json">>
        THEN LET data == json_loads(content)
             IN  IF data.kind = "ValueError"
                 THEN Step(Raised("ValueError", NoVal), <<"json.loads">>, <<>>)
                 ELSE Step(Returned(DecodedVal(data)), <<"json.loads">>, <<>>)
        ELSE Step(Returned(ContentVal(content)), <<>>, <<>>)

\* request without its assert: every status that does not begin with 4 is
\* taken as a success.
request_result_no_assert(rep) ==
    LET raw == raw_request_result(rep)
        resp == raw.out.val.resp
        content == raw.out.val.content
    IN  IF raw.out.kind = "raise" THEN raw
        ELSE IF FirstChar(resp.status) = "4" THEN Step(GitHubError(resp), <<>>, <<>>)
        ELSE IF StartsWith(RespGet(resp, "content-type", <<>>), "application/json")
        THEN LET data == json_loads(content)
             IN  IF data.kind = "ValueError"
                 THEN Step(Raised("ValueError", NoVal), <<"json.loads">>, <<>>)
                 ELSE Step(Returned(DecodedVal(data)), <<"json.loads">>, <<>>)
        ELSE Step(Returned(ContentVal(content)), <<>>, <<>>)

\* request from the return of Http.request inside raw_request on.
request_result(rep) ==
    LET raw == raw_request_result(rep)
        resp == raw.out.val.resp
        content == raw.out.val.content
    IN  IF raw.out.kind = "raise" THEN raw
        ELSE IF FirstChar(resp.status) = "4" THEN Step(GitHubError(resp), <<>>, <<>>)
        ELSE IF FirstChar(resp.status) # "2"
        THEN Step(Raised("AssertionError", NoVal), <<>>, <<>>)
        ELSE IF StartsWith(RespGet(resp, "content-type", <<>>), "application/json")
        THEN LET data == json_loads(content)
             IN  IF data.kind = "ValueError"
                 THEN Step(Raised("ValueError", NoVal), <<"json.loads">>, <<>>)
                 ELSE Step(Returned(DecodedVal(data)), <<"json.loads">>, <<>>)
        ELSE Step(Returned(ContentVal(content)), <<>>, <<>>)

\* The parameters of request(self, method, resource, headers=None, body=None).
request_params == {"method", "resource", "headers", "body"}

\* A parameter left to its default of None.
Default(kw, name) == IF name \in DOMAIN kw THEN kw[name] ELSE Absent

\* A call of request with the arguments kw (by name), up to the call of
\* Http.request inside raw_request.  Python binds the arguments first: one
\* that is no parameter of request is a TypeError, and request does not run.
request_send(self, kw) ==
    IF ~(DOMAIN kw \subseteq request_params)
    THEN Step(Raised("TypeError", NoVal), <<>>, <<>>)
    ELSE raw_request_send(self, kw["method"], kw["resource"],
                          Default(kw, "headers"), Default(kw, "body"))

\* get, head, patch, put, delete: request(METHOD, resource).
shortcut_arguments(method, resource) ==
    ("method" :> method) @@ ("resource" :> resource)

\* post: request('POST', resource, headers=headers, data=data), with the JSON
\* content type and data encoded by json.dumps.
post_arguments(resource, data) ==
    ("method" :> "POST") @@ ("resource" :> resource)
    @@ ("headers" :> Some(JSON_HEADERS)) @@ ("data" :> Some(json_dumps(data)))

(***************************************************************************)
(* Inputs: what the application, the browser and the servers can supply.   *)
(***************************************************************************)
\* The most positional arguments a callback route receives.
MaxArgs == 2

\* The request threads of the application that use the instance.
Threads == {"t1", "t2"}

\* The thread of an application that serves one request at a time.
Serial == {"t1"}

\* app.config, without and with GITHUB_BASE_URL.
AppConfigs ==
    LET required == ("GITHUB_CLIENT_ID" :> "id1")
                    @@ ("GITHUB_CLIENT_SECRET" :> "secret1")
                    @@ ("GITHUB_CALLBACK_URL" :> "http://app/cb")
    IN  {required,
         required @@ ("GITHUB_BASE_URL" :> "https://ghe.example.com/api/v3/")}

Tokens == {"tok1", "tok2"}

\* The functions the application registers with access_token_getter.
Getters == {Getter(tok) : tok \in Tokens} \cup {FailingGetter("KeyError")}

Scopes == {None, "", "user", "user:email", "repo user"}

\* request.args of the callback route.
CallbackArgs ==
    {<<>>,
     ("error" :> "access_denied"),
     ("code" :> "c1"),
     ("code" :> "c2") @@ ("state" :> "s1"),
     ("code" :> "")}

\* The positional arguments of the route: a1, a2, ...
PosArgs == {[i \in 1..n |-> "a" \o IntStr(i)] : n \in 0..MaxArgs}

KwArgs == {<<>>, ("next" :> "/home")}

\* What the wrapped route does when called: returns a page, or raises.
HandlerOutcomes ==
    {Returned(StrVal("page")), Returned(StrVal("login")), Raised("HandlerError", NoVal)}

Methods == {"GET", "PUT"}

Resources == {"user", "repos/x"}

CallerHeaders == {Absent, Some(<<>>), Some(("Accept" :> "application/json"))}

CallerBodies == {Absent, Some(<<>>), Some(json_dumps(<<<<"name", "x">>>>))}

PostData == {<<>>, <<<<"name", "x">>>>}

\* Bodies the token endpoint answers with.
TokenContents ==
    {json_dumps(<<<<"access_token", "tok1">>>>),
     json_dumps(<<<<"access_token", "tok2">>, <<"token_type", "bearer">>>>),
     json_dumps(<<<<"access_token", None>>>>),
     json_dumps(<<<<"error", "bad_verification_code">>>>),
     <<LBracket, RBracket>>,
     <<Raw("access_token=tok1&token_type=bearer")>>,
     <<LBrace, Lit("access_token"), Colon>>,
     <<>>}

TokenStatuses == {200, 201, 302, 401, 500}

TokenReplies ==
    {Answer(Response(st, <<>>), c) : st \in TokenStatuses, c \in TokenContents}
    \cup {Failure("ServerNotFoundError")}

\* Bodies the API answers with.
ApiContents ==
    {json_dumps(<<<<"message", "Not Found">>>>),
     json_dumps(<<<<"login", "octocat">>>>),
     <<Raw("hello")>>,
     <<LBrace, Lit("login"), Colon>>,
     <<>>}

ApiStatuses == {100, 200, 201, 302, 401, 404, 500}

\* Response headers: the content type, as its segments, and other headers.
ApiHeaders ==
    {<<>>,
     ("content-type" :> <<"application/json">>),
     ("content-type" :> <<"application/json", "; charset=utf-8">>),
     ("content-type" :> <<"text/plain">>),
     ("content-type" :> <<"application/json">>) @@ ("message" :> "from header"),
     ("message" :> "from header")}

ApiReplies ==
    {Answer(Response(st, h), c) : st \in ApiStatuses, h \in ApiHeaders, c \in ApiContents}
    \cup {Failure("ServerNotFoundError")}

(***************************************************************************)
(* State.                                                                  *)
(***************************************************************************)
VARIABLES
    self,      \* the GitHub instance: its configuration and its token getter
    pc,        \* per thread: "idle", "exchange" and "api" (blocked in the
               \* transport, in _handle_response and in raw_request), "done"
    call,      \* per thread: the operation in progress and its arguments
    log,       \* per thread: the events of the operation, in order
    sent,      \* per thread: the requests the operation handed to the transport
    reply,     \* per thread: what the transport answered
    invoked,   \* per thread: the calls of the wrapped route the operation made
    outcome    \* per thread: what the operation returned or raised

vars == <<self, pc, call, log, sent, reply, invoked, outcome>>

NoCall ==
    [op |-> "none", method |-> "", resource |-> "", headers |-> Absent,
     body |-> Absent, data |-> <<>>, args |-> <<>>, posargs |-> <<>>,
     kwargs |-> <<>>, scope |-> None, f |-> DefaultGetter]

Init ==
    /\ self \in {init_app(config) : config \in AppConfigs}
    /\ pc = [t \in Threads |-> "idle"]
    /\ call = [t \in Threads |-> NoCall]
    /\ log = [t \in Threads |-> <<>>]
    /\ sent = [t \in Threads |-> <<>>]
    /\ reply = [t \in Threads |-> NoReply]
    /\ invoked = [t \in Threads |-> <<>>]
    /\ outcome = [t \in Threads |-> NoOutcome]

\* Thread t enters operation c and runs it as far as step st says: to its end
\* when st has an outcome, and else into the transport, where it waits at
\* `blocked`.
Enter(t, c, st, blocked) ==
    /\ pc[t] = "idle"
    /\ call' = [call EXCEPT ![t] = c]
    /\ log' = [log EXCEPT ![t] = st.log]
    /\ sent' = [sent EXCEPT ![t] = st.send]
    /\ outcome' = [outcome EXCEPT ![t] = st.out]
    /\ pc' = [pc EXCEPT ![t] = IF st.out.kind = "none" THEN blocked ELSE "done"]
    /\ UNCHANGED reply

\* The transport answers rep to thread t, and the operation runs to its end
\* as step st says.
Resume(t, rep, st) ==
    /\ reply' = [reply EXCEPT ![t] = rep]
    /\ log' = [log EXCEPT ![t] = @ \o <<"response">> \o st.log]
    /\ outcome' = [outcome EXCEPT ![t] = st.out]
    /\ pc' = [pc EXCEPT ![t] = "done"]
    /\ UNCHANGED <<self, call, sent>>

(***************************************************************************)
(* Actions: the operations of the instance, called by thread t.            *)
(***************************************************************************)
\* access_token_getter(f): registers f.
access_token_getter(t) ==
    \E f \in Getters :
        /\ Enter(t, [NoCall EXCEPT !.op = "access_token_getter", !.f = f],
                 Step(Returned(HookVal(f)), <<>>, <<>>), "done")
        /\ self' = [self EXCEPT !.get_access_token = f]
        /\ UNCHANGED invoked

\* authorize(scope)
authorize(t) ==
    \E scope \in Scopes :
        /\ Enter(t, [NoCall EXCEPT !.op = "authorize", !.scope = scope],
                 authorize_result(self, scope), "done")
        /\ UNCHANGED <<self, invoked>>

\* The route wrapped by authorized_handler is requested: decorated runs, to
\* its end when request.args has no code, and else into the POST of
\* _handle_response.
decorated(t) ==
    \E args \in CallbackArgs, posargs \in PosArgs, kwargs \in KwArgs,
       did \in HandlerOutcomes :
        LET c == [NoCall EXCEPT !.op = "decorated", !.args = args,
                                !.posargs = posargs, !.kwargs = kwargs]
        IN  IF "code" \in DOMAIN args
            THEN /\ Enter(t, c, handle_response_send(self, args), "exchange")
                 /\ UNCHANGED <<self, invoked>>
            ELSE /\ Enter(t, c, decorated_result(handle_invalid_response, did),
                          "exchange")
                 /\ invoked' = [invoked EXCEPT ![t] =
                        decorated_calls(handle_invalid_response, posargs, kwargs, did)]
                 /\ UNCHANGED self

\* The token endpoint answers: _handle_response and decorated run to their end.
decorated_return(t) ==
    /\ pc[t] = "exchange"
    /\ \E rep \in TokenReplies, did \in HandlerOutcomes :
        /\ Resume(t, rep, decorated_result(handle_response(rep), did))
        /\ invoked' = [invoked EXCEPT ![t] =
               decorated_calls(handle_response(rep), call[t].posargs,
                               call[t].kwargs, did)]

\* An authenticated call that stores the class's BASE_URL on the instance as
\* it builds its URL.
Api_sets_base_url(t, c, st) ==
    /\ Enter(t, c, st, "api")
    /\ self' = [self EXCEPT !.base_url = BASE_URL]
    /\ UNCHANGED invoked

\* Thread t calls `op`, which comes to request(**kw) or to raw_request.
Api(t, c, st) ==
    /\ Enter(t, c, st, "api")
    /\ UNCHANGED <<self, invoked>>

\* raw_request(method, resource, headers, body)
raw_request(t) ==
    \E method \in Methods, resource \in Resources, headers \in CallerHeaders,
       body \in CallerBodies :
        Api(t, [NoCall EXCEPT !.op = "raw_request", !.method = method,
                              !.resource = resource, !.headers = headers,
                              !.body = body],
            raw_request_send(self, method, resource, headers, body))

\* raw_request returns what the transport answered.
raw_request_return(t) ==
    /\ pc[t] = "api"
    /\ call[t].op = "raw_request"
    /\ \E rep \in ApiReplies : Resume(t, rep, raw_request_result(rep))
    /\ UNCHANGED invoked

\* request(method, resource, headers, body)
request(t) ==
    \E method \in Methods, resource \in Resources, headers \in CallerHeaders,
       body \in CallerBodies :
        Api(t, [NoCall EXCEPT !.op = "request", !.method = method,
                              !.resource = resource, !.headers = headers,
                              !.body = body],
            request_send(self, shortcut_arguments(method, resource)
                               @@ ("headers" :> headers) @@ ("body" :> body)))

\* A shortcut without a body.
Shortcut(t, op, method) ==
    \E resource \in Resources :
        Api(t, [NoCall EXCEPT !.op = op, !.method = method, !.resource = resource],
            request_send(self, shortcut_arguments(method, resource)))

get(t) == Shortcut(t, "get", "GET")

head(t) == Shortcut(t, "head", "HEAD")

patch(t) == Shortcut(t, "patch", "PATCH")

put(t) == Shortcut(t, "put", "PUT")

delete(t) == Shortcut(t, "delete", "DELETE")

\* post(resource, data)
post(t) ==
    \E resource \in Resources, data \in PostData :
        Api(t, [NoCall EXCEPT !.op = "post", !.method = "POST",
                              !.resource = resource, !.data = data],
            request_send(self, post_arguments(resource, data)))

\* request, called directly or by a shortcut, runs on from the answer.
request_return(t) ==
    /\ pc[t] = "api"
    /\ call[t].op # "raw_request"
    /\ \E rep \in ApiReplies : Resume(t, rep, request_result(rep))
    /\ UNCHANGED invoked

\* The caller has the outcome; the thread is free for its next call.
Return(t) ==
    /\ pc[t] = "done"
    /\ pc' = [pc EXCEPT ![t] = "idle"]
    /\ call' = [call EXCEPT ![t] = NoCall]
    /\ log' = [log EXCEPT ![t] = <<>>]
    /\ sent' = [sent EXCEPT ![t] = <<>>]
    /\ reply' = [reply EXCEPT ![t] = NoReply]
    /\ invoked' = [invoked EXCEPT ![t] = <<>>]
    /\ outcome' = [outcome EXCEPT ![t] = NoOutcome]
    /\ UNCHANGED self

Next ==
    \E t \in Serial :
        \/ access_token_getter(t)
        \/ authorize(t)
        \/ decorated(t)
        \/ decorated_return(t)
        \/ raw_request(t)
        \/ raw_request_return(t)
        \/ request(t)
        \/ get(t)
        \/ head(t)
        \/ patch(t)
        \/ put(t)
        \/ delete(t)
        \/ post(t)
        \/ request_return(t)
        \/ Return(t)

Spec == Init /\ [][Next]_vars

(***************************************************************************)
(* Vocabulary of the properties.                                           *)
(***************************************************************************)
Events(t) == {log[t][i] : i \in 1..Len(log[t])}

\* Thread t is in, or has just finished, the wrapped callback route.
InCallback(t) == call[t].op = "decorated"

HasCode(t) == "code" \in DOMAIN call[t].args

Finished(t) == pc[t] = "done"

\* The transport answered thread t with a response (it did not raise).
Answered(t) == reply[t].kind = "response"

\* The token (or None) the wrapped route was called with.
Delivered(t) == invoked[t][1].args[1]

\* The wrapped route was called once, and decorated did what the route did:
\* nothing was raised by the callback handling itself.
HandlerRanOnce(t) == Len(invoked[t]) = 1 /\ outcome[t] = invoked[t][1].out

\* The operations that go through request, and all that go to the API.
RequestOps == {"request", "get", "post", "head", "patch", "put", "delete"}

ApiOps == RequestOps \cup {"raw_request"}

(***************************************************************************)
(* Properties.                                                             *)
(***************************************************************************)
\* C1: a callback whose query parameters hold no `code` makes no transport
\* call, raises nothing of its own, and calls the wrapped route once with None
\* as the token.
C1_NoCodeYieldsNull ==
    \A t \in Threads :
        (InCallback(t) /\ ~HasCode(t)) =>
            /\ Finished(t)
            /\ sent[t] = <<>>
            /\ "http.request" \notin Events(t)
            /\ HandlerRanOnce(t)
            /\ Delivered(t) = None

\* C1 witness: a denied authorization (error=access_denied, no code) handled.
C1_Witness ==
    \E t \in Threads :
        /\ InCallback(t) /\ Finished(t)
        /\ call[t].args = ("error" :> "access_denied")
        /\ Len(invoked[t]) = 1

\* C2: with `code` present and a 200 answer whose body is a JSON object
\* holding access_token = T, the wrapped route is called with exactly T.
C2_TokenFromBody ==
    \A t \in Threads :
        \A T \in Tokens \cup {None} :
            \A more \in {<<>>, <<<<"token_type", "bearer">>>>} :
                (/\ InCallback(t) /\ HasCode(t) /\ Finished(t) /\ Answered(t)
                 /\ reply[t].resp.status = 200
                 /\ reply[t].content = json_dumps(<<<<"access_token", T>>>> \o more))
                => (HandlerRanOnce(t) /\ Delivered(t) = T)

\* C2 witness: 200 with {"access_token": "tok2", "token_type": "bearer"}.
C2_Witness ==
    \E t \in Threads :
        /\ InCallback(t) /\ HasCode(t) /\ Finished(t) /\ Answered(t)
        /\ reply[t].resp.status = 200
        /\ reply[t].content =
               json_dumps(<<<<"access_token", "tok2">>, <<"token_type", "bearer">>>>)
        /\ Len(invoked[t]) = 1

\* C3: with `code` present and an answer of any status other than 200, the
\* wrapped route is called with None, nothing is raised by the callback
\* handling, and the body is never parsed.
C3_Non200YieldsNull ==
    \A t \in Threads :
        (/\ InCallback(t) /\ HasCode(t) /\ Finished(t) /\ Answered(t)
         /\ reply[t].resp.status # 200)
        => /\ HandlerRanOnce(t)
           /\ Delivered(t) = None
           /\ "json.loads" \notin Events(t)

\* C3 witness: a 201 answer carrying a token in its body.
C3_Witness ==
    \E t \in Threads :
        /\ InCallback(t) /\ HasCode(t) /\ Finished(t) /\ Answered(t)
        /\ reply[t].resp.status = 201
        /\ reply[t].content = json_dumps(<<<<"access_token", "tok1">>>>)
        /\ Len(invoked[t]) = 1

\* The one POST of the exchange, as the code builds it.
OnePost(t) ==
    /\ Len(sent[t]) = 1
    /\ sent[t][1].method = "POST"
    /\ sent[t][1].url = "https://github.com/login/oauth/access_token"

\* The exchange ended in TokenObtained or NoToken: the wrapped route got a
\* token or None.
Terminal(t) == Len(invoked[t]) = 1 /\ Delivered(t) \in Tokens \cup {None}

\* The answers on which _handle_response raises: none (the transport raised),
\* or a 200 whose body is not a JSON object.
ExchangeRaises(t) ==
    \/ ~Answered(t)
    \/ /\ reply[t].resp.status = 200
       /\ reply[t].content \notin
              {json_dumps(<<<<"access_token", "tok1">>>>),
               json_dumps(<<<<"access_token", "tok2">>, <<"token_type", "bearer">>>>),
               json_dumps(<<<<"access_token", None>>>>),
               json_dumps(<<<<"error", "bad_verification_code">>>>)}

\* C4 as claimed: every handling of a callback with `code` makes exactly one
\* POST and ends in TokenObtained or NoToken.
C4_AlwaysTerminal ==
    \A t \in Threads :
        (InCallback(t) /\ HasCode(t)) =>
            /\ OnePost(t)
            /\ Finished(t) => Terminal(t)

\* C4 amended: every handling of a callback with `code` makes exactly one
\* POST, whatever the answer; it ends in TokenObtained or NoToken when the
\* transport answers with a status other than 200 or with a 200 whose body is
\* a JSON object, and else in the exception of the exchange, the wrapped route
\* not being called.
C4_OnePostThenTerminalOrRaise ==
    \A t \in Threads :
        (InCallback(t) /\ HasCode(t)) =>
            /\ OnePost(t)
            /\ (Finished(t) /\ ~ExchangeRaises(t)) => Terminal(t)
            /\ (Finished(t) /\ ExchangeRaises(t)) =>
                   /\ invoked[t] = <<>>
                   /\ outcome[t].kind = "raise"
                   /\ outcome[t].exc \in
                          {"ServerNotFoundError", "ValueError", "AttributeError"}

\* C4 witness: a 500 answer, after which one POST stands and the route ran.
C4_Witness ==
    \E t \in Threads :
        /\ InCallback(t) /\ HasCode(t) /\ Finished(t) /\ Answered(t)
        /\ reply[t].resp.status = 500
        /\ Len(sent[t]) = 1
        /\ Len(invoked[t]) = 1

\* C5: in every authenticated call, a getter that raises leaves the
\* transport uncalled and its exception is what the call raises; a request
\* is handed to the transport only after the getter has returned a token,
\* which the URL of the request carries.
C5_GetterFailurePropagates ==
    \A t \in Threads :
        (call[t].op \in ApiOps) =>
            /\ ("get_access_token" \in Events(t) /\ self.get_access_token.kind # "returns")
               => /\ Finished(t)
                  /\ sent[t] = <<>>
                  /\ "http.request" \notin Events(t)
                  /\ outcome[t] = Raised(self.get_access_token.v, NoVal)
            /\ (sent[t] # <<>>)
               => /\ self.get_access_token.kind = "returns"
                  /\ Len(log[t]) >= 2
                  /\ log[t][1] = "get_access_token"
                  /\ log[t][2] = "http.request"
                  /\ sent[t][1].url = "https://api.github.com/" \o call[t].resource
                                      \o "?access_token=" \o self.get_access_token.v

\* C5 witness: get() with a registered getter that raises KeyError.
C5_Witness ==
    \E t \in Threads :
        /\ call[t].op = "get" /\ Finished(t)
        /\ self.get_access_token = FailingGetter("KeyError")
        /\ outcome[t].exc = "KeyError"

\* The wrapped route was called with the token first, then the positional
\* arguments of the route in order, and the keyword arguments of the route;
\* it ran last, and decorated did what it did.
WrappedCallShape(t) ==
    /\ HandlerRanOnce(t)
    /\ Len(invoked[t][1].args) = Len(call[t].posargs) + 1
    /\ Delivered(t) \in Tokens \cup {None}
    /\ \A i \in 1..Len(call[t].posargs) :
           invoked[t][1].args[i + 1] = call[t].posargs[i]
    /\ invoked[t][1].kwargs = call[t].kwargs
    /\ log[t][Len(log[t])] = "f"
    /\ HasCode(t) => "response" \in Events(t)

\* C6 as claimed: every call of a wrapped route calls the route exactly once,
\* after the exchange, with the token or None before the arguments of the
\* route, and returns what the route returns.
C6_AlwaysInvokedOnce ==
    \A t \in Threads :
        InCallback(t) =>
            /\ pc[t] = "exchange" => invoked[t] = <<>>
            /\ Finished(t) => WrappedCallShape(t)

\* C6 amended: the same, for every call in which the exchange (if any) does
\* not raise: `code` is absent, or the transport answers with a status other
\* than 200 or with a 200 whose body is a JSON object.  When the exchange
\* raises, the route is not called and the exception is what decorated raises.
C6_InvokedOnceUnlessExchangeRaises ==
    \A t \in Threads :
        InCallback(t) =>
            /\ pc[t] = "exchange" => invoked[t] = <<>>
            /\ (Finished(t) /\ (~HasCode(t) \/ ~ExchangeRaises(t)))
               => WrappedCallShape(t)
            /\ (Finished(t) /\ HasCode(t) /\ ExchangeRaises(t))
               => (invoked[t] = <<>> /\ outcome[t].kind = "raise")

\* C6 witness: a route with two positional arguments and a keyword argument,
\* after a 200 answer with a token; the route returned its page.
C6_Witness ==
    \E t \in Threads :
        /\ InCallback(t) /\ HasCode(t) /\ Finished(t) /\ Answered(t)
        /\ reply[t].resp.status = 200
        /\ Len(call[t].posargs) = 2
        /\ call[t].kwargs = ("next" :> "/home")
        /\ Len(invoked[t]) = 1
        /\ Delivered(t) = "tok1"
        /\ outcome[t] = Returned(StrVal("page"))

\* The body an error carries, if its response holds one.
ErrorBody(e) ==
    IF "content" \in DOMAIN e.val.response
    THEN Some(e.val.response.content) ELSE Absent

\* C7 as claimed: request fails with GitHubError exactly on the answers whose
\* status begins with 4, and the error wraps the status and the body of the
\* answer.
C7_ClientErrorWrapsStatusAndBody ==
    \A t \in Threads :
        (call[t].op \in RequestOps /\ Finished(t) /\ Answered(t)) =>
            /\ (reply[t].resp.status \div 100 = 4)
               => /\ outcome[t].kind = "raise"
                  /\ outcome[t].exc = "GitHubError"
                  /\ outcome[t].val.response.status = reply[t].resp.status
                  /\ ErrorBody(outcome[t]) = Some(reply[t].content)
            /\ (reply[t].resp.status \div 100 # 4)
               => outcome[t].exc # "GitHubError"

\* The part of C7 the code keeps: GitHubError exactly on the statuses that
\* begin with 4, carrying the Response (status and headers) of the transport.
C7_ClientErrorClassification ==
    \A t \in Threads :
        (call[t].op \in RequestOps /\ Finished(t) /\ Answered(t)) =>
            IF reply[t].resp.status \div 100 = 4
            THEN outcome[t] = Raised("GitHubError", [response |-> reply[t].resp])
            ELSE outcome[t].exc # "GitHubError"

\* C8 as claimed: the GitHubError of a 4xx answer with status S renders as
\* "S: M" when the body is a JSON object with message M, and as "S: None"
\* when the body is a JSON object without a message.
C8_RendersBodyMessage ==
    \A t \in Threads :
        (/\ call[t].op \in RequestOps /\ Finished(t) /\ Answered(t)
         /\ reply[t].resp.status \in {401, 404})
        => /\ (reply[t].content = json_dumps(<<<<"message", "Not Found">>>>))
              => GitHubError_str(outcome[t])
                     = (IF reply[t].resp.status = 404 THEN "404" ELSE "401")
                       \o ": Not Found"
           /\ (reply[t].content = json_dumps(<<<<"login", "octocat">>>>))
              => GitHubError_str(outcome[t])
                     = (IF reply[t].resp.status = 404 THEN "404" ELSE "401")
                       \o ": None"

\* C9 as claimed: post(resource, data), the getter returning a token, hands
\* the transport one POST whose body is the JSON encoding of data and whose
\* headers hold Content-Type: application/json, and does not fail before.
C9_PostSendsJson ==
    \A t \in Threads :
        (call[t].op = "post" /\ self.get_access_token.kind = "returns") =>
            /\ Len(sent[t]) = 1
            /\ sent[t][1].method = "POST"
            /\ sent[t][1].body = Some(json_dumps(call[t].data))
            /\ "Content-Type" \in DOMAIN sent[t][1].headers
            /\ sent[t][1].headers["Content-Type"] = "application/json"

\* C10 as claimed: the URL raw_request hands to the transport is the
\* configured base URL, the resource, "?access_token=" and the token.
C10_UrlFromConfiguredBase ==
    \A t \in Threads :
        (call[t].op \in ApiOps /\ sent[t] # <<>>) =>
            sent[t][1].url = self.base_url \o call[t].resource
                             \o "?access_token=" \o self.get_access_token.v

\* The content type of the answer starts with application/json.
JsonTyped(t) ==
    /\ "content-type" \in DOMAIN reply[t].resp.headers
    /\ reply[t].resp.headers["content-type"]
           \in {<<"application/json">>, <<"application/json", "; charset=utf-8">>}

\* request, or a shortcut, got an answer with a 2xx status.
Success(t) ==
    /\ call[t].op \in RequestOps /\ Finished(t) /\ Answered(t)
    /\ reply[t].resp.status \div 100 = 2

\* The bodies of the API that are JSON, with their decoding.
JsonBodies ==
    {<<json_dumps(<<<<"message", "Not Found">>>>), ("message" :> "Not Found")>>,
     <<json_dumps(<<<<"login", "octocat">>>>), ("login" :> "octocat")>>}

\* C11 as claimed: on a 2xx answer request returns the structured decoding
\* of the body when the content type starts with application/json, and else
\* (the header missing included) the body as the transport returned it.
C11_DecodesByContentType ==
    \A t \in Threads :
        Success(t) =>
            IF JsonTyped(t)
            THEN outcome[t].kind = "return" /\ "decoded" \in DOMAIN outcome[t].val
            ELSE outcome[t] = Returned(ContentVal(reply[t].content))

\* C11 amended: on a 2xx answer whose content type starts with
\* application/json request returns the decoding of the body when the body is
\* JSON, and raises the ValueError of json.loads when it is not; on every
\* other 2xx answer (the header missing included) it returns the body as the
\* transport returned it.
C11_DecodesJsonOrRaises ==
    \A t \in Threads :
        Success(t) =>
            IF JsonTyped(t)
            THEN /\ \A b \in JsonBodies :
                        reply[t].content = b[1] =>
                            outcome[t] = Returned(DecodedVal(Decoded("dict", b[2])))
                 /\ (\A b \in JsonBodies : reply[t].content # b[1]) =>
                        outcome[t] = Raised("ValueError", NoVal)
            ELSE outcome[t] = Returned(ContentVal(reply[t].content))

\* C11 witness: 200, application/json; charset=utf-8, {"login": "octocat"}.
C11_Witness ==
    \E t \in Threads :
        /\ Success(t)
        /\ reply[t].resp.status = 200
        /\ reply[t].resp.headers
               = ("content-type" :> <<"application/json", "; charset=utf-8">>)
        /\ reply[t].content = json_dumps(<<<<"login", "octocat">>>>)
        /\ outcome[t].kind = "return"

\* C12: on an answer whose status begins with neither 2 nor 4, request
\* fails its assertion (an AssertionError, not a GitHubError) and returns
\* nothing; request returns a value only on a status that begins with 2.
C12_OtherStatusesFailAssertion ==
    \A t \in Threads :
        (call[t].op \in RequestOps /\ Finished(t) /\ Answered(t)) =>
            /\ (reply[t].resp.status \div 100 \notin {2, 4})
               => outcome[t] = Raised("AssertionError", NoVal)
            /\ (outcome[t].kind = "return")
               => reply[t].resp.status \div 100 = 2

\* C12 witness: a 500 answer with a JSON body, ended in the AssertionError.
C12_Witness ==
    \E t \in Threads :
        /\ call[t].op \in RequestOps /\ Finished(t) /\ Answered(t)
        /\ reply[t].resp.status = 500
        /\ reply[t].resp.headers = ("content-type" :> <<"application/json">>)
        /\ outcome[t].exc = "AssertionError"

\* The query string of the scope parameter, percent-encoded, for each scope
\* an application passes; nothing when it passes none.
ScopeQuery ==
    (None :> "")
    @@ ("" :> "&scope=")
    @@ ("user" :> "&scope=user")
    @@ ("user:email" :> "&scope=user%3Aemail")
    @@ ("repo user" :> "&scope=repo+user")

\* C13: authorize returns a redirect to the authorize page of the fixed OAuth
\* root, with client_id and redirect_uri of the configuration and with a
\* scope parameter, equal to the scope passed, exactly when one was passed;
\* it makes no transport call.
C13_AuthorizeRedirect ==
    \A t \in Threads :
        (call[t].op = "authorize") =>
            /\ Finished(t)
            /\ sent[t] = <<>>
            /\ "http.request" \notin Events(t)
            /\ outcome[t] = Returned(RedirectVal(
                   "https://github.com/login/oauth/authorize"
                   \o "?client_id=id1&redirect_uri=http%3A%2F%2Fapp%2Fcb"
                   \o ScopeQuery[call[t].scope]))

\* C13 witness: authorize("user:email") has returned its redirect.
C13_Witness ==
    \E t \in Threads :
        /\ call[t].op = "authorize" /\ Finished(t)
        /\ call[t].scope = "user:email"
        /\ outcome[t].kind = "return"

\* The answer to thread t is a 200 whose body is a JSON object that holds a
\* token under access_token.
TokenAnswer(t) ==
    /\ Answered(t)
    /\ reply[t].resp.status = 200
    /\ reply[t].content \in
           {json_dumps(<<<<"access_token", "tok1">>>>),
            json_dumps(<<<<"access_token", "tok2">>, <<"token_type", "bearer">>>>)}

\* C14 as claimed: the wrapped route gets None only when `code` is absent or
\* the status of the exchange is not 200; every 200 delivers a token.
C14_NullOnlyWithoutCodeOrNon200 ==
    \A t \in Threads :
        (InCallback(t) /\ Finished(t) /\ Len(invoked[t]) = 1 /\ Delivered(t) = None)
        => (~HasCode(t) \/ (Answered(t) /\ reply[t].resp.status # 200))

\* C14 amended: the wrapped route gets a token exactly when `code` is present
\* and the answer is a 200 whose body is a JSON object holding a non-null
\* access_token; it gets None when `code` is absent, when the status is not
\* 200, and when a 200 body is a JSON object without access_token (a provider
\* error object) or with a null one.
C14_TokenOnlyFromTokenBody ==
    \A t \in Threads :
        (InCallback(t) /\ Finished(t) /\ Len(invoked[t]) = 1) =>
            (Delivered(t) # None <=> (HasCode(t) /\ TokenAnswer(t)))

\* C14 witness: a 200 with the error object of the provider; the route ran
\* with None.
C14_Witness ==
    \E t \in Threads :
        /\ InCallback(t) /\ HasCode(t) /\ Finished(t) /\ Answered(t)
        /\ reply[t].resp.status = 200
        /\ reply[t].content = json_dumps(<<<<"error", "bad_verification_code">>>>)
        /\ Len(invoked[t]) = 1
        /\ Delivered(t) = None

\* How many times event e is in the log of thread t.
Count(t, e) == Cardinality({i \in 1..Len(log[t]) : log[t][i] = e})

ForwardedHeaders(t) ==
    IF call[t].headers = Absent THEN <<>> ELSE call[t].headers.v

\* What raw_request returns once the transport answered: the pair as it came,
\* with nothing decoded and no GitHubError, whatever the status.
ReturnsPairUnmodified(t) ==
    (Finished(t) /\ Answered(t)) =>
        /\ outcome[t] = Returned(PairVal(reply[t].resp, reply[t].content))
        /\ Count(t, "json.loads") = 0

\* C16 as claimed: raw_request hands the caller's method, headers and, whenever
\* the caller supplied a body, an empty one included, that body to the
\* transport, and returns the transport's pair unmodified.
C16_ForwardsEveryBody ==
    \A t \in Threads :
        (call[t].op = "raw_request" /\ Len(sent[t]) = 1) =>
            /\ sent[t][1].method = call[t].method
            /\ sent[t][1].headers = ForwardedHeaders(t)
            /\ sent[t][1].body = call[t].body
            /\ ReturnsPairUnmodified(t)

\* C16 amended: raw_request hands the caller's method and headers to the
\* transport, and the caller's body when it is not empty; an empty body is
\* left out like a missing one; it returns the transport's pair unmodified,
\* decodes nothing and raises no GitHubError, whatever the status.
C16_ForwardsNonEmptyBody ==
    \A t \in Threads :
        (call[t].op = "raw_request" /\ Len(sent[t]) = 1) =>
            /\ sent[t][1].method = call[t].method
            /\ sent[t][1].headers = ForwardedHeaders(t)
            /\ sent[t][1].body = IF Truthy(call[t].body) THEN call[t].body ELSE Absent
            /\ ReturnsPairUnmodified(t)
            /\ outcome[t].exc # "GitHubError"

\* C16 witness: raw_request with headers and a body, answered 404 with a JSON
\* body, returns the pair.
C16_Witness ==
    \E t \in Threads :
        /\ call[t].op = "raw_request" /\ Finished(t) /\ Answered(t)
        /\ Truthy(call[t].body) /\ Truthy(call[t].headers)
        /\ sent[t][1].body = call[t].body
        /\ reply[t].resp.status = 404
        /\ StartsWith(RespGet(reply[t].resp, "content-type", <<>>), "application/json")
        /\ outcome[t].kind = "return"

\* An authenticated call of thread t on an instance that has the default
\* getter fails with NotImplementedError and sends nothing.
FailsNotImplemented(t) ==
    /\ Finished(t)
    /\ sent[t] = <<>>
    /\ outcome[t] = Raised("NotImplementedError", NoVal)

\* The request of thread t carries the token of the getter the instance has
\* now, which is the one registered last.
UsesRegisteredGetter(t) ==
    /\ self.get_access_token.kind = "returns"
    /\ sent[t][1].url =
           BASE_URL \o call[t].resource \o "?access_token="
                    \o self.get_access_token.v

\* access_token_getter(f) stores f, returns it and sends nothing.
RegistrationReturnsHook(t) ==
    /\ Finished(t)
    /\ sent[t] = <<>>
    /\ self.get_access_token = call[t].f
    /\ outcome[t] = Returned(HookVal(call[t].f))

\* C17 as claimed: with the default getter every authenticated call fails with
\* NotImplementedError and sends nothing; with registered getters the calls
\* use the one registered last; registering sends nothing and returns the
\* function.
C17_DefaultStubUntilRegistered ==
    \A t \in Threads :
        /\ (call[t].op \in ApiOps /\ self.get_access_token = DefaultGetter)
               => FailsNotImplemented(t)
        /\ (call[t].op \in ApiOps /\ Len(sent[t]) = 1) => UsesRegisteredGetter(t)
        /\ (call[t].op = "access_token_getter") => RegistrationReturnsHook(t)

\* C17 without post: what C17 claims holds of every authenticated call that
\* gets as far as raw_request.
C17_DefaultStubExceptPost ==
    \A t \in Threads :
        /\ (call[t].op \in ApiOps \ {"post"} /\ self.get_access_token = DefaultGetter)
               => FailsNotImplemented(t)
        /\ (call[t].op = "post") =>
               Finished(t) /\ sent[t] = <<>> /\ outcome[t].exc = "TypeError"
        /\ (call[t].op \in ApiOps /\ Len(sent[t]) = 1) => UsesRegisteredGetter(t)
        /\ (call[t].op = "access_token_getter") => RegistrationReturnsHook(t)

\* The Configuration of an instance: what init_app set, the getter apart.
Configuration(inst) ==
    [client_id |-> inst.client_id, client_secret |-> inst.client_secret,
     callback_url |-> inst.callback_url, base_url |-> inst.base_url,
     base_auth_url |-> BASE_AUTH_URL]

\* The step is a call of access_token_getter, and the instance differs by the
\* getter it registered only.
RegistersGetter ==
    \E t \in Threads :
        /\ pc[t] = "idle"
        /\ call'[t].op = "access_token_getter"
        /\ self' = [self EXCEPT !.get_access_token = call'[t].f]

\* C18: no step of authorize, of the callback, of raw_request, request or a
\* shortcut changes the Configuration, however it ends; a step that changes
\* the instance is a call of access_token_getter, and changes the getter only.
C18_ConfigurationImmutable ==
    [][/\ Configuration(self') = Configuration(self)
       /\ (self' # self) => RegistersGetter]_vars

\* C18 witness: on an instance configured with its own base URL, after a
\* getter was registered, a request has ended in GitHubError and the
\* Configuration is the one init_app set.
C18_Witness ==
    \E t \in Threads, config \in AppConfigs :
        /\ "GITHUB_BASE_URL" \in DOMAIN config
        /\ call[t].op \in RequestOps /\ Finished(t)
        /\ outcome[t].exc = "GitHubError"
        /\ self.get_access_token # DefaultGetter
        /\ Configuration(self) = Configuration(init_app(config))

(***************************************************************************)
(* Two callbacks at once: a threaded server runs decorated for two         *)
(* requests on the one instance.  request.args is Flask's context-local    *)
(* request, so each thread reads its own; params, url, resp, content and   *)
(* data are locals of _handle_response.  A thread can be overtaken only    *)
(* while it is blocked in Http.request, and Http.request returns to its    *)
(* caller the answer to the request that caller passed.                    *)
(***************************************************************************)
\* The token GitHub issues for a code; none for a code it does not know.
Issued(code) ==
    CASE code = "c1" -> "tok1"
      [] code = "c2" -> "tok2"
      [] OTHER -> None

\* What the token endpoint may answer to request req: the token of the code
\* in the body of req, an error object, a server error; or the transport fails.
EndpointReplies(req) ==
    LET code == DictGet(json_loads(req.body.v).d, "code")
    IN  {Answer(Response(200, <<>>),
                IF Issued(code) = None
                THEN json_dumps(<<<<"error", "bad_verification_code">>>>)
                ELSE json_dumps(<<<<"access_token", Issued(code)>>>>)),
         Answer(Response(200, <<>>), json_dumps(<<<<"error", "bad_verification_code">>>>)),
         Answer(Response(500, <<>>), <<>>),
         Failure("ServerNotFoundError")}

\* decorated keeping the code of the callback in an attribute of the
\* instance, where the callback that came first has left its own.
callback_shared_code(t) ==
    \E args \in CallbackArgs, did \in HandlerOutcomes :
        LET c == [NoCall EXCEPT !.op = "decorated", !.args = args]
            first == {u \in Threads \ {t} : pc[u] = "exchange"}
            code == IF first = {} THEN args["code"]
                    ELSE call[CHOOSE u \in first : TRUE].args["code"]
        IN  IF "code" \in DOMAIN args
            THEN /\ Enter(t, c, handle_response_send(self, ("code" :> code)),
                          "exchange")
                 /\ UNCHANGED <<self, invoked>>
            ELSE /\ Enter(t, c, decorated_result(handle_invalid_response, did),
                          "exchange")
                 /\ invoked' = [invoked EXCEPT ![t] =
                        decorated_calls(handle_invalid_response, <<>>, <<>>, did)]
                 /\ UNCHANGED self

\* Thread t serves a request of the callback route: decorated runs, to its end
\* when request.args has no code, and else into the POST of _handle_response.
callback(t) ==
    \E args \in CallbackArgs, did \in HandlerOutcomes :
        LET c == [NoCall EXCEPT !.op = "decorated", !.args = args]
        IN  IF "code" \in DOMAIN args
            THEN /\ Enter(t, c, handle_response_send(self, args), "exchange")
                 /\ UNCHANGED <<self, invoked>>
            ELSE /\ Enter(t, c, decorated_result(handle_invalid_response, did),
                          "exchange")
                 /\ invoked' = [invoked EXCEPT ![t] =
                        decorated_calls(handle_invalid_response, <<>>, <<>>, did)]
                 /\ UNCHANGED self

\* The token endpoint answers the POST of thread t: _handle_response and
\* decorated run to their end in t.
callback_return(t) ==
    /\ pc[t] = "exchange"
    /\ \E rep \in EndpointReplies(sent[t][1]), did \in HandlerOutcomes :
        /\ Resume(t, rep, decorated_result(handle_response(rep), did))
        /\ invoked' = [invoked EXCEPT ![t] =
               decorated_calls(handle_response(rep), <<>>, <<>>, did)]

NextConcurrent ==
    \E t \in Threads :
        \/ callback(t)
        \/ callback_return(t)
        \/ Return(t)

SpecConcurrent == Init /\ [][NextConcurrent]_vars

\* The code of the callback thread t serves, and the code its POST carries.
OwnCode(t) == call[t].args["code"]

PostedCode(t) == DictGet(json_loads(sent[t][1].body.v).d, "code")

\* The endpoint answered thread t with a token.
TokenIssued(t) ==
    /\ Answered(t)
    /\ reply[t].resp.status = 200
    /\ DictGet(json_loads(reply[t].content).d, "access_token") # None

MessagesOf(t) ==
    LET data == json_loads(reply[t].content)
    IN  (IF data.kind = "dict" /\ "message" \in DOMAIN data.d
         THEN {data.d["message"]} ELSE {})
        \cup (IF "message" \in DOMAIN reply[t].resp.headers
              THEN {reply[t].resp.headers["message"]} ELSE {})

\* C20: str() of a GitHubError never raises: whatever the body of the wrapped
\* response is (a JSON object with a message, one without, malformed JSON,
\* not JSON, empty), it returns "S: " for the status S followed by a message
\* or by None.
C20_RenderingNeverRaises ==
    \A t \in Threads :
        (outcome[t].exc = "GitHubError") =>
            LET rendered == str_GitHubError(outcome[t])
                prefix == IntStr(reply[t].resp.status) \o ": "
            IN  /\ rendered.kind = "return"
                /\ rendered.val.str \in
                       {prefix \o Str(None)}
                       \cup {prefix \o m : m \in MessagesOf(t)}

\* C20 witness: a GitHubError wrapping a 404 whose body is malformed JSON and
\* whose headers hold no message renders as "404: None".
C20_Witness ==
    \E t \in Threads :
        /\ outcome[t].exc = "GitHubError"
        /\ reply[t].resp.status = 404
        /\ reply[t].content = <<LBrace, Lit("login"), Colon>>
        /\ "message" \notin DOMAIN reply[t].resp.headers
        /\ str_GitHubError(outcome[t]) = Returned(StrVal("404: None"))

====
